---- MODULE Spec2Model ----
(***************************************************************************)
(* A model of src/src/main.ts (vify): the bounded-concurrency executor     *)
(* parallelMap, the per-link enrichment renameLink with its three caches,  *)
(* and the pure string functions they are built from.                      *)
(*                                                                         *)
(* Strings are sequences of Unicode code points.  Every await of the       *)
(* source is a suspension point: the code between two awaits is one atomic *)
(* action.  Ready continuations (promise jobs) run in any order, and the   *)
(* network calls settle, in any order, only when no continuation is ready: *)
(* Node runs the promise jobs to the end before the next I/O callback.     *)
(***************************************************************************)
EXTENDS Integers, Sequences, FiniteSets, TLC

VARIABLES
    ipCache,      \* host -> ip
    geoCache,     \* ip -> country code
    tagCache,     \* ip -> tag
    items,        \* parallelMap: the items of the running call
    limit,        \* parallelMap: its worker budget
    i,            \* parallelMap: the shared index counter
    res,          \* parallelMap: the result array, index -> value
    workers,      \* parallelMap: each worker's position and locals
    pm,           \* parallelMap: "idle", "running" or "resolved"
    fnCalls,      \* observer: index -> number of fn invocations started
    calls,        \* observer: index -> what the last settled invocation did
    order,        \* observer: the indices in the order their invocations settled
    firstIP,      \* observer: host -> what the first resolveIP to complete returned
    dnsLookups,   \* observer: host -> number of dns.lookup calls issued
    geoRequests,  \* observer: ip -> number of geo requests issued
    probe,        \* the argument of a pure function applied on its own
    probeOut,     \* what the function returned for it, NoValue before the call
    mainPc,       \* main: "off", "fetch", "pass1", "protos", "done" or "fatal"
    fetched,      \* main: the number of sources fetched
    all,          \* main: the Set of links, in insertion order
    grouped,      \* main: the groups, [k, v] in key order
    gi,           \* main: the position in grouped of the protocol being renamed
    saved,        \* main: the files written, [kind, proto, lines] in order
    dropped       \* observer: the matches the block list kept out of the Set

cacheVars == <<ipCache, geoCache, tagCache>>

pmVars == <<items, limit, i, res, workers, pm>>

obsVars == <<fnCalls, calls, order, firstIP, dnsLookups, geoRequests>>

probeVars == <<probe, probeOut>>

mainVars == <<mainPc, fetched, all, grouped, gi, saved, dropped>>

vars == <<cacheVars, pmVars, obsVars, probeVars, mainVars>>

(***************************************************************************)
(* Strings                                                                 *)
(***************************************************************************)

\* The printable ASCII characters, code points 32..126, in order (the quotes 34
\* and 39, the backslash 92 and the backtick 96 are written by name).
AsciiTable ==
    << " ", "!", "dquote", "#", "$", "%", "&", "squote", "(", ")", "*", "+", ",", "-", ".", "/",
       "0", "1", "2", "3", "4", "5", "6", "7", "8", "9", ":", ";", "<", "=", ">", "?",
       "@", "A", "B", "C", "D", "E", "F", "G", "H", "I", "J", "K", "L", "M", "N", "O",
       "P", "Q", "R", "S", "T", "U", "V", "W", "X", "Y", "Z", "[", "bslash", "]", "^", "_",
       "btick", "a", "b", "c", "d", "e", "f", "g", "h", "i", "j", "k", "l", "m", "n", "o",
       "p", "q", "r", "s", "t", "u", "v", "w", "x", "y", "z", "{", "|", "}", "~" >>

\* The code point of a printable ASCII character.
Code(c) == 31 + (CHOOSE k \in 1..95 : AsciiTable[k] = c)

\* The string written as a tuple of characters.
S(chars) == [k \in 1..Len(chars) |-> Code(chars[k])]

\* The absence of a string (undefined): no code point is negative.
NoValue == <<-1>>

\* Position of the first occurrence of pat in s, 0 when there is none.
IndexOf(s, pat) ==
    LET hits == {k \in 1..(Len(s) - Len(pat) + 1) : SubSeq(s, k, k + Len(pat) - 1) = pat}
    IN  IF hits = {} THEN 0 ELSE CHOOSE k \in hits : \A j \in hits : k <= j

Contains(s, pat) == IndexOf(s, pat) # 0

\* s.split(sep)[0]: the text before the first sep, all of s when sep is absent.
SplitHead(s, sep) ==
    LET k == IndexOf(s, sep)
    IN  IF k = 0 THEN s ELSE SubSeq(s, 1, k - 1)

\* String.prototype.toLowerCase on ASCII letters.
ToLowerCase(s) == [k \in 1..Len(s) |-> IF s[k] \in 65..90 THEN s[k] + 32 ELSE s[k]]

\* String.prototype.toUpperCase on ASCII letters.
ToUpperCase(s) == [k \in 1..Len(s) |-> IF s[k] \in 97..122 THEN s[k] - 32 ELSE s[k]]

SchemeSep == S(<<":", "/", "/">>)

UNKNOWN == S(<<"u", "n", "k", "n", "o", "w", "n">>)

(***************************************************************************)
(* detectProtocol                                                          *)
(***************************************************************************)

\* link.split("://")[0]?.toLowerCase() || "unknown": the fallback is taken
\* only when the lowercased head is the empty string.
detectProtocol(link) ==
    LET head == ToLowerCase(SplitHead(link, SchemeSep))
    IN  IF head = <<>> THEN UNKNOWN ELSE head

(***************************************************************************)
(* new URL(link) for links of the form scheme://authority...; node:url     *)
(* follows the WHATWG URL standard.  The schemes of the modelled links are *)
(* not special (not http, https, ws, wss, ftp, file), so the host is an    *)
(* opaque host: kept as written unless it holds a forbidden code point.    *)
(* Every other form of link has no host: parsing fails or leaves the       *)
(* hostname empty, and extractHost returns "" in both cases.               *)
(***************************************************************************)

IsAlpha(c) == c \in 65..90 \/ c \in 97..122

IsDigit(c) == c \in 48..57

\* Position of the first element of s that is in set, 0 when there is none.
FirstIndexIn(s, set) ==
    LET hits == {k \in 1..Len(s) : s[k] \in set}
    IN  IF hits = {} THEN 0 ELSE CHOOSE k \in hits : \A j \in hits : k <= j

\* Position of the last element of s that is in set, 0 when there is none.
LastIndexIn(s, set) ==
    LET hits == {k \in 1..Len(s) : s[k] \in set}
    IN  IF hits = {} THEN 0 ELSE CHOOSE k \in hits : \A j \in hits : k >= j

\* s from position k to its end.
From(s, k) == SubSeq(s, k, Len(s))

RECURSIVE DigitsValue(_)
\* The number a string of decimal digits denotes.
DigitsValue(s) ==
    IF s = <<>> THEN 0
    ELSE 10 * DigitsValue(SubSeq(s, 1, Len(s) - 1)) + (s[Len(s)] - 48)

RECURSIVE Decimal(_)
\* The decimal digits of a natural number (String(n)).
Decimal(n) == IF n < 10 THEN <<48 + n>> ELSE Decimal(n \div 10) \o <<48 + (n % 10)>>

HexDigit(n) == IF n < 10 THEN 48 + n ELSE 55 + n

RECURSIVE PercentEncode(_, _)
\* Percent-encoding of the ASCII characters of s that lie in set.
PercentEncode(s, set) ==
    IF s = <<>> THEN <<>>
    ELSE (IF s[1] \in set
          THEN <<37, HexDigit(s[1] \div 16), HexDigit(s[1] % 16)>>
          ELSE <<s[1]>>) \o PercentEncode(Tail(s), set)

\* Forbidden host code points among the printable characters:
\* space # / : < > ? @ [ \ ] ^ |
ForbiddenHostChars == {32, 35, 47, 58, 60, 62, 63, 64, 91, 92, 93, 94, 124}

\* space " < > `
FragmentEncodeSet == {32, 34, 60, 62, 96}

\* space " # < >
QueryEncodeSet == {32, 34, 35, 60, 62}

\* the query set and ? ` { }
PathEncodeSet == QueryEncodeSet \cup {63, 96, 123, 125}

\* the path set and / : ; = @ [ \ ] ^ |
UserinfoEncodeSet == PathEncodeSet \cup {47, 58, 59, 61, 64, 91, 92, 93, 94, 124}

\* The largest port number a URL accepts.
MaxPort == 65535

ValidScheme(s) ==
    /\ s # <<>>
    /\ IsAlpha(s[1])
    /\ \A k \in 1..Len(s) : IsAlpha(s[k]) \/ IsDigit(s[k]) \/ s[k] \in {43, 45, 46}

ValidOpaqueHost(h) == \A k \in 1..Len(h) : h[k] \notin ForbiddenHostChars

URLFailure == [ok |-> FALSE]

\* s cut at position k: the text before it and the text after it; all of s
\* is the head when k = 0.
Cut(s, k) ==
    [found |-> k # 0,
     head  |-> IF k = 0 THEN s ELSE SubSeq(s, 1, k - 1),
     tail  |-> IF k = 0 THEN <<>> ELSE From(s, k + 1)]

CutAtFirst(s, set) == Cut(s, FirstIndexIn(s, set))

CutAtLast(s, set) == Cut(s, LastIndexIn(s, set))

\* The authority is [userinfo "@"] host [":" port]: cr is the userinfo cut
\* at its first ":", hp the host and port cut at the first ":".
ParseURLHost(scheme, frag, query, path, sawAt, cr, hp) ==
    IF \/ (sawAt /\ hp.head = <<>> /\ ~hp.found)
       \/ (hp.found /\ hp.head = <<>>)
       \/ ~ValidOpaqueHost(hp.head)
       \/ \E k \in 1..Len(hp.tail) : ~IsDigit(hp.tail[k])
       \/ DigitsValue(hp.tail) > MaxPort
    THEN URLFailure
    ELSE [ok |-> TRUE,
          scheme |-> scheme,
          username |-> PercentEncode(cr.head, UserinfoEncodeSet),
          password |-> PercentEncode(cr.tail, UserinfoEncodeSet),
          host |-> hp.head,
          port |-> IF hp.tail = <<>> THEN NoValue ELSE Decimal(DigitsValue(hp.tail)),
          path |-> path,
          query |-> query,
          fragment |-> frag]

\* a is the authority cut at its last "@".
ParseURLAuthority(scheme, frag, query, path, a) ==
    ParseURLHost(scheme, frag, query, path, a.found,
                 CutAtFirst(IF a.found THEN a.head ELSE <<>>, {58}),
                 CutAtFirst(IF a.found THEN a.tail ELSE a.head, {58}))

\* s is the authority and the path, slashAt the position of the first "/".
ParseURLPath(scheme, frag, query, s, slashAt) ==
    ParseURLAuthority(scheme, frag, query,
        IF slashAt = 0 THEN <<>> ELSE PercentEncode(From(s, slashAt), PathEncodeSet),
        CutAtLast(IF slashAt = 0 THEN s ELSE SubSeq(s, 1, slashAt - 1), {64}))

\* q is the text before the fragment, cut at the first "?".
ParseURLQuery(scheme, frag, q) ==
    ParseURLPath(scheme, frag,
        IF q.found THEN PercentEncode(q.tail, QueryEncodeSet) ELSE NoValue,
        q.head, FirstIndexIn(q.head, {47}))

\* f is the text after "scheme://", cut at the first "#".
ParseURLFragment(scheme, f) ==
    ParseURLQuery(scheme,
        IF f.found THEN PercentEncode(f.tail, FragmentEncodeSet) ELSE NoValue,
        CutAtFirst(f.head, {63}))

\* sc is the link cut at its first ":".
ParseURLScheme(sc) ==
    IF ~sc.found \/ ~ValidScheme(sc.head) \/ SubSeq(sc.tail, 1, 2) # <<47, 47>>
    THEN URLFailure
    ELSE ParseURLFragment(ToLowerCase(sc.head), CutAtFirst(From(sc.tail, 3), {35}))

\* The URL record of a link, or URLFailure.  port is NoValue when absent, and
\* so are query and fragment.
ParseURL(link) == ParseURLScheme(CutAtFirst(link, {58}))

\* A variant that writes host, port and path only.
SerializeURLFromHost(u) ==
    u.host \o (IF u.port = NoValue THEN <<>> ELSE <<58>> \o u.port) \o u.path

\* u.toString(): the URL serializer.
SerializeURL(u) ==
    u.scheme \o SchemeSep
    \o (IF u.username # <<>> \/ u.password # <<>>
        THEN u.username
             \o (IF u.password # <<>> THEN <<58>> \o u.password ELSE <<>>)
             \o <<64>>
        ELSE <<>>)
    \o u.host
    \o (IF u.port = NoValue THEN <<>> ELSE <<58>> \o u.port)
    \o u.path
    \o (IF u.query = NoValue THEN <<>> ELSE <<63>> \o u.query)
    \o (IF u.fragment = NoValue THEN <<>> ELSE <<35>> \o u.fragment)

(***************************************************************************)
(* extractHost                                                             *)
(***************************************************************************)

\* The hostname of a parsed URL, "" when parsing threw.
HostnameOrEmpty(u) == IF u.ok THEN u.host ELSE <<>>

\* try { return new URL(link).hostname } catch { return "" }
extractHost(link) == HostnameOrEmpty(ParseURL(link))

(***************************************************************************)
(* net.isIP.  A hostname taken from a URL holds no ":" (a forbidden host   *)
(* code point; an IPv6 host comes back in brackets, which net.isIP         *)
(* rejects), so for such hosts net.isIP is the dotted-quad test.           *)
(***************************************************************************)

\* One decimal octet 0..255 without a leading zero.
IsOctet(s) ==
    /\ Len(s) \in 1..3
    /\ \A k \in 1..Len(s) : IsDigit(s[k])
    /\ (Len(s) > 1 => s[1] # 48)
    /\ DigitsValue(s) <= 255

RECURSIVE SplitOn(_, _)
\* s.split(c) for a single character c.
SplitOn(s, c) ==
    LET k == FirstIndexIn(s, {c})
    IN  IF k = 0 THEN <<s>> ELSE <<SubSeq(s, 1, k - 1)>> \o SplitOn(From(s, k + 1), c)

FourOctets(parts) == Len(parts) = 4 /\ \A k \in 1..4 : IsOctet(parts[k])

isIP(host) == FourOctets(SplitOn(host, 46))

(***************************************************************************)
(* UTF-8 and base64 (Buffer.from / Buffer.toString)                        *)
(***************************************************************************)

\* U+FFFD, which the decoder puts in place of a malformed sequence.
ReplacementChar == 65533

Utf8EncodeChar(c) ==
    IF c < 128 THEN <<c>>
    ELSE IF c < 2048 THEN <<192 + (c \div 64), 128 + (c % 64)>>
    ELSE IF c < 65536 THEN <<224 + (c \div 4096), 128 + ((c \div 64) % 64), 128 + (c % 64)>>
    ELSE <<240 + (c \div 262144), 128 + ((c \div 4096) % 64),
           128 + ((c \div 64) % 64), 128 + (c % 64)>>

RECURSIVE Utf8Encode(_)
\* Buffer.from(str, "utf8"): the bytes of a string.
Utf8Encode(str) ==
    IF str = <<>> THEN <<>> ELSE Utf8EncodeChar(Head(str)) \o Utf8Encode(Tail(str))

IsCont(b, k) == k <= Len(b) /\ b[k] \in 128..191

RECURSIVE Utf8Decode(_)
\* buf.toString("utf8"): a malformed byte decodes to U+FFFD.
Utf8Decode(b) ==
    IF b = <<>> THEN <<>>
    ELSE IF b[1] < 128 THEN <<b[1]>> \o Utf8Decode(Tail(b))
    ELSE IF b[1] \in 194..223 /\ IsCont(b, 2)
         THEN <<(b[1] - 192) * 64 + (b[2] - 128)>> \o Utf8Decode(From(b, 3))
    ELSE IF /\ b[1] \in 224..239 /\ IsCont(b, 2) /\ IsCont(b, 3)
            /\ (b[1] - 224) * 4096 + (b[2] - 128) * 64 + (b[3] - 128) >= 2048
            /\ (b[1] - 224) * 4096 + (b[2] - 128) * 64 + (b[3] - 128) \notin 55296..57343
         THEN <<(b[1] - 224) * 4096 + (b[2] - 128) * 64 + (b[3] - 128)>>
              \o Utf8Decode(From(b, 4))
    ELSE IF /\ b[1] \in 240..244 /\ IsCont(b, 2) /\ IsCont(b, 3) /\ IsCont(b, 4)
            /\ (b[1] - 240) * 262144 + (b[2] - 128) * 4096
               + (b[3] - 128) * 64 + (b[4] - 128) \in 65536..1114111
         THEN <<(b[1] - 240) * 262144 + (b[2] - 128) * 4096
                + (b[3] - 128) * 64 + (b[4] - 128)>> \o Utf8Decode(From(b, 5))
    ELSE <<ReplacementChar>> \o Utf8Decode(Tail(b))

\* The character of a base64 digit 0..63.
Base64Char(n) ==
    IF n < 26 THEN 65 + n
    ELSE IF n < 52 THEN 97 + (n - 26)
    ELSE IF n < 62 THEN 48 + (n - 52)
    ELSE IF n = 62 THEN 43 ELSE 47

\* The digit of a base64 character, -1 for any other character.  The decoder
\* also reads the URL-safe - and _.
Unbase64(c) ==
    IF c \in 65..90 THEN c - 65
    ELSE IF c \in 97..122 THEN c - 97 + 26
    ELSE IF c \in 48..57 THEN c - 48 + 52
    ELSE IF c \in {43, 45} THEN 62
    ELSE IF c \in {47, 95} THEN 63
    ELSE -1

RECURSIVE Base64EncodeBytes(_)
\* buf.toString("base64"), with padding.
Base64EncodeBytes(b) ==
    IF b = <<>> THEN <<>>
    ELSE IF Len(b) = 1
         THEN <<Base64Char(b[1] \div 4), Base64Char((b[1] % 4) * 16), 61, 61>>
    ELSE IF Len(b) = 2
         THEN <<Base64Char(b[1] \div 4), Base64Char((b[1] % 4) * 16 + (b[2] \div 16)),
                Base64Char((b[2] % 16) * 4), 61>>
    ELSE <<Base64Char(b[1] \div 4), Base64Char((b[1] % 4) * 16 + (b[2] \div 16)),
           Base64Char((b[2] % 16) * 4 + (b[3] \div 64)), Base64Char(b[3] % 64)>>
         \o Base64EncodeBytes(From(b, 4))

RECURSIVE SextetBytes(_)
\* The bytes a run of base64 digits holds; a last lone digit holds none.
SextetBytes(d) ==
    IF Len(d) < 2 THEN <<>>
    ELSE IF Len(d) = 2 THEN <<d[1] * 4 + (d[2] \div 16)>>
    ELSE IF Len(d) = 3 THEN <<d[1] * 4 + (d[2] \div 16), (d[2] % 16) * 16 + (d[3] \div 4)>>
    ELSE <<d[1] * 4 + (d[2] \div 16), (d[2] % 16) * 16 + (d[3] \div 4), (d[3] % 4) * 64 + d[4]>>
         \o SextetBytes(From(d, 5))

\* Buffer.from(str, "base64"): decoding stops at the first "=", and a
\* character that is no base64 digit is skipped.
Base64DecodeBytes(str) ==
    LET eq     == FirstIndexIn(str, {61})
        body   == IF eq = 0 THEN str ELSE SubSeq(str, 1, eq - 1)
        digits == SelectSeq([k \in 1..Len(body) |-> Unbase64(body[k])], LAMBDA d : d >= 0)
    IN  SextetBytes(digits)

\* "=".repeat(n)
Repeat61(n) == [k \in 1..n |-> 61]

b64Decode(str) ==
    LET pad == Repeat61((4 - (Len(str) % 4)) % 4)
    IN  Utf8Decode(Base64DecodeBytes(str \o pad))

b64Encode(str) == Base64EncodeBytes(Utf8Encode(str))

(***************************************************************************)
(* JSON.parse and JSON.stringify, for the texts the modelled payloads      *)
(* hold: objects (possibly nested) whose values are strings without        *)
(* escape sequences, integers, true, false, null.  Any other text is a     *)
(* SyntaxError.  A value is a record [t, v]; an object's v is the sequence *)
(* of its [k, v] members in insertion order.                               *)
(***************************************************************************)

JsonWhitespace == {9, 10, 13, 32}

JsonFailure == [ok |-> FALSE]

\* The first position from k on that holds no JSON whitespace.
SkipWs(t, k) ==
    LET rest == {j \in k..Len(t) : t[j] \notin JsonWhitespace}
    IN  IF rest = {} THEN Len(t) + 1 ELSE CHOOSE j \in rest : \A q \in rest : j <= q

StartsAt(t, k, word) ==
    k + Len(word) - 1 <= Len(t) /\ SubSeq(t, k, k + Len(word) - 1) = word

JsonTrue == S(<<"t", "r", "u", "e">>)

JsonFalse == S(<<"f", "a", "l", "s", "e">>)

JsonNull == S(<<"n", "u", "l", "l">>)

\* A string literal opening at position k.
ParseJsonString(t, k) ==
    LET close == {j \in (k + 1)..Len(t) : t[j] = 34}
        j == CHOOSE c \in close : \A q \in close : c <= q
    IN  IF k > Len(t) \/ t[k] # 34 \/ close = {} THEN JsonFailure
        ELSE IF \E q \in (k + 1)..(j - 1) : t[q] = 92 \/ t[q] < 32 THEN JsonFailure
        ELSE [ok |-> TRUE, val |-> [t |-> "string", v |-> SubSeq(t, k + 1, j - 1)],
              next |-> j + 1]

\* An integer literal opening at position k.
ParseJsonNumber(t, k) ==
    LET neg   == t[k] = 45
        from  == IF neg THEN k + 1 ELSE k
        stop  == {j \in from..Len(t) : ~IsDigit(t[j])}
        end   == IF stop = {} THEN Len(t) + 1 ELSE CHOOSE j \in stop : \A q \in stop : j <= q
        digs  == SubSeq(t, from, end - 1)
    IN  IF digs = <<>> \/ (Len(digs) > 1 /\ digs[1] = 48) THEN JsonFailure
        ELSE IF end <= Len(t) /\ t[end] \in {46, 69, 101} THEN JsonFailure
        ELSE [ok |-> TRUE,
              val |-> [t |-> "number",
                       v |-> IF neg THEN 0 - DigitsValue(digs) ELSE DigitsValue(digs)],
              next |-> end]

\* obj[key] = val: an own key keeps its place, a new key goes last.
SetProperty(members, key, val) ==
    IF \E q \in 1..Len(members) : members[q].k = key
    THEN [q \in 1..Len(members) |->
             IF members[q].k = key THEN [k |-> key, v |-> val] ELSE members[q]]
    ELSE Append(members, [k |-> key, v |-> val])

RECURSIVE ParseJsonAt(_, _), ParseJsonMembers(_, _, _), ParseJsonMember(_, _, _),
          ParseJsonMemberValue(_, _, _, _), ParseJsonMemberEnd(_, _, _, _)

\* The value opening at position p, which holds no whitespace.
ParseJsonAt(t, p) ==
    IF p > Len(t) THEN JsonFailure
    ELSE IF t[p] = 34 THEN ParseJsonString(t, p)
    ELSE IF t[p] = 123 THEN ParseJsonMembers(t, SkipWs(t, p + 1), <<>>)
    ELSE IF t[p] = 45 \/ IsDigit(t[p]) THEN ParseJsonNumber(t, p)
    ELSE IF StartsAt(t, p, JsonTrue)
         THEN [ok |-> TRUE, val |-> [t |-> "true", v |-> 0], next |-> p + 4]
    ELSE IF StartsAt(t, p, JsonFalse)
         THEN [ok |-> TRUE, val |-> [t |-> "false", v |-> 0], next |-> p + 5]
    ELSE IF StartsAt(t, p, JsonNull)
         THEN [ok |-> TRUE, val |-> [t |-> "null", v |-> 0], next |-> p + 4]
    ELSE JsonFailure

\* The members of an object from position p on, after those in acc: the
\* closing brace of an empty object, or a key.
ParseJsonMembers(t, p, acc) ==
    IF acc = <<>> /\ p <= Len(t) /\ t[p] = 125
    THEN [ok |-> TRUE, val |-> [t |-> "object", v |-> <<>>], next |-> p + 1]
    ELSE ParseJsonMember(t, acc, ParseJsonString(t, p))

\* After the key: the colon.
ParseJsonMember(t, acc, key) ==
    IF ~key.ok THEN JsonFailure
    ELSE ParseJsonMemberValue(t, acc, key.val.v, SkipWs(t, key.next))

\* After the colon at position colon: the value.
ParseJsonMemberValue(t, acc, key, colon) ==
    IF colon > Len(t) \/ t[colon] # 58 THEN JsonFailure
    ELSE ParseJsonMemberEnd(t, acc, key, ParseJsonAt(t, SkipWs(t, colon + 1)))

\* After the value: a comma and the next member, or the closing brace.
ParseJsonMemberEnd(t, acc, key, val) ==
    IF ~val.ok \/ SkipWs(t, val.next) > Len(t) THEN JsonFailure
    ELSE IF t[SkipWs(t, val.next)] = 125
         THEN [ok |-> TRUE,
               val |-> [t |-> "object", v |-> SetProperty(acc, key, val.val)],
               next |-> SkipWs(t, val.next) + 1]
    ELSE IF t[SkipWs(t, val.next)] = 44
         THEN ParseJsonMembers(t, SkipWs(t, SkipWs(t, val.next) + 1),
                               SetProperty(acc, key, val.val))
    ELSE JsonFailure

\* The whole text is one value, whitespace aside.
WholeText(text, r) ==
    IF r.ok /\ SkipWs(text, r.next) > Len(text) THEN [ok |-> TRUE, val |-> r.val]
    ELSE JsonFailure

\* JSON.parse(text): [ok |-> FALSE] stands for the SyntaxError.
JSONParse(text) == WholeText(text, ParseJsonAt(text, SkipWs(text, 1)))

RECURSIVE JsonQuoteBody(_)
JsonQuoteBody(str) ==
    IF str = <<>> THEN <<>>
    ELSE (IF Head(str) \in {34, 92} THEN <<92, Head(str)>> ELSE <<Head(str)>>)
         \o JsonQuoteBody(Tail(str))

JsonQuote(str) == <<34>> \o JsonQuoteBody(str) \o <<34>>

RECURSIVE JSONStringify(_), StringifyMembers(_)

StringifyMembers(members) ==
    IF members = <<>> THEN <<>>
    ELSE JsonQuote(members[1].k) \o <<58>> \o JSONStringify(members[1].v)
         \o (IF Len(members) > 1 THEN <<44>> ELSE <<>>)
         \o StringifyMembers(Tail(members))

\* JSON.stringify(value)
JSONStringify(val) ==
    IF val.t = "string" THEN JsonQuote(val.v)
    ELSE IF val.t = "number"
         THEN (IF val.v < 0 THEN <<45>> \o Decimal(0 - val.v) ELSE Decimal(val.v))
    ELSE IF val.t = "true" THEN JsonTrue
    ELSE IF val.t = "false" THEN JsonFalse
    ELSE IF val.t = "null" THEN JsonNull
    ELSE <<123>> \o StringifyMembers(val.v) \o <<125>>

(***************************************************************************)
(* Config                                                                  *)
(***************************************************************************)

BLOCKED_PROTOCOLS ==
    { S(<<"h", "t", "t", "p", "s">>),
      S(<<"h", "y", "s", "t", "e", "r", "i", "a", "2">>),
      S(<<"h", "y", "2">>),
      S(<<"t", "u", "i", "c">>),
      S(<<"h", "y", "s", "t", "e", "r", "i", "a">>) }

\* A variant without the block list: no protocol is blocked.
IsBlockedNever(proto) == FALSE

\* BLOCKED_PROTOCOLS.has(proto)
IsBlocked(proto) == proto \in BLOCKED_PROTOCOLS

VMESS == S(<<"v", "m", "e", "s", "s">>)

VmessPrefix == VMESS \o SchemeSep

\* The country code that stands for no country.
UN == S(<<"U", "N">>)

\* The address renameLink tags a vmess link with when it finds no host.
NoHostIP == S(<<"0", ".", "0", ".", "0", ".", "0">>)

\* The port renameLink hands to renameURLLike.
RewritePort == 443

\* crypto.randomInt(RandMin, RandMax) draws from RandMin..(RandMax - 1).
RandMin == 100000

RandMax == 999999

(***************************************************************************)
(* Tag                                                                     *)
(***************************************************************************)

\* The white flag U+1F3F3 with the variation selector U+FE0F.
NeutralFlag == <<127987, 65039>>

countryFlag(cc) ==
    IF Len(cc) # 2 THEN NeutralFlag
    ELSE [k \in 1..2 |-> 127397 + cc[k]]

TagMarker ==
    S(<<" ", "@", "M", "r", "M", "e", "s", "h", "k", "y",
        "C", "h", "a", "n", "n", "e", "l", " ">>)

\* `${countryFlag(cc)} @MrMeshkyChannel ${n}` for the drawn integer n.
TagText(cc, n) == countryFlag(cc) \o TagMarker \o Decimal(n)

\* (r.data?.country_code || "UN").toUpperCase(), for a response body whose
\* country_code is a string or is missing (NoValue).
CountryCodeOf(data) ==
    ToUpperCase(IF data.country_code = NoValue \/ data.country_code = <<>>
                THEN UN ELSE data.country_code)

(***************************************************************************)
(* Rename                                                                  *)
(***************************************************************************)

\* str.replace(pat, rep): the first occurrence only.
ReplaceFirst(str, pat, rep) ==
    LET k == IndexOf(str, pat)
    IN  IF k = 0 THEN str
        ELSE SubSeq(str, 1, k - 1) \o rep \o From(str, k + Len(pat))

TrimSet == {9, 10, 11, 12, 13, 32}

\* String.prototype.trim
Trim(str) ==
    LET keep == {k \in 1..Len(str) : str[k] \notin TrimSet}
    IN  IF keep = {} THEN <<>>
        ELSE SubSeq(str, CHOOSE k \in keep : \A j \in keep : k <= j,
                         CHOOSE k \in keep : \A j \in keep : k >= j)

PS == S(<<"p", "s">>)

\* A variant that re-encodes the payload without the assignment to ps.
RenameParsedUnnamed(link, tag, cfg) ==
    IF ~cfg.ok \/ cfg.val.t # "object" THEN link
    ELSE VmessPrefix \o b64Encode(JSONStringify(cfg.val))

\* cfg.ps = tag; return `vmess://${b64Encode(JSON.stringify(cfg))}`.  The
\* assignment throws a TypeError when cfg is null or (the module being in
\* strict mode) a primitive, and JSON.parse throws on a malformed text; the
\* catch returns the link.
RenameParsed(link, tag, cfg) ==
    IF ~cfg.ok \/ cfg.val.t # "object" THEN link
    ELSE VmessPrefix
         \o b64Encode(JSONStringify(
                [t |-> "object",
                 v |-> SetProperty(cfg.val.v, PS, [t |-> "string", v |-> tag])]))

renameVmessSafe(link, tag) ==
    RenameParsed(link, tag,
                 JSONParse(b64Decode(Trim(ReplaceFirst(link, VmessPrefix, <<>>)))))

\* A-Z a-z 0-9 - _ . ! ~ * ' ( )
UriUnreserved ==
    (65..90) \cup (97..122) \cup (48..57) \cup {45, 95, 46, 33, 126, 42, 39, 40, 41}

encodeURIComponent(str) == PercentEncode(Utf8Encode(str), (0..255) \ UriUnreserved)

\* u.hostname = value.  The setter leaves the URL alone when the value does
\* not parse as a host.
SetHostname(u, value) ==
    LET stop == FirstIndexIn(value, {35, 47, 63})
        buf  == IF stop = 0 THEN value ELSE SubSeq(value, 1, stop - 1)
    IN  IF \/ ~ValidOpaqueHost(buf)
           \/ (buf = <<>> /\ (u.username # <<>> \/ u.password # <<>> \/ u.port # NoValue))
        THEN u
        ELSE [u EXCEPT !.host = buf]

\* u.port = value.  A URL without a host takes no port; the leading digits of
\* the value are the port.
SetPort(u, value) ==
    LET stop == FirstIndexIn(value, (0..255) \ (48..57))
        digs == IF stop = 0 THEN value ELSE SubSeq(value, 1, stop - 1)
    IN  IF u.host = <<>> THEN u
        ELSE IF value = <<>> THEN [u EXCEPT !.port = NoValue]
        ELSE IF digs = <<>> \/ DigitsValue(digs) > MaxPort THEN u
        ELSE [u EXCEPT !.port = Decimal(DigitsValue(digs))]

\* u.hash = value
SetHash(u, value) ==
    IF value = <<>> THEN [u EXCEPT !.fragment = NoValue]
    ELSE [u EXCEPT !.fragment =
             PercentEncode(IF value[1] = 35 THEN Tail(value) ELSE value, FragmentEncodeSet)]

\* A variant whose catch returns the empty string.
RewriteParsedDropped(link, ip, port, tag, u) ==
    IF ~u.ok THEN <<>>
    ELSE SerializeURL(
             SetHash(SetPort(SetHostname(u, ip), Decimal(port)),
                     encodeURIComponent(tag)))

\* u.hostname = ip; u.port = String(port); u.hash = encodeURIComponent(tag);
\* return u.toString().  new URL throwing, the catch returns the link.
RewriteParsed(link, ip, port, tag, u) ==
    IF ~u.ok THEN link
    ELSE SerializeURL(
             SetHash(SetPort(SetHostname(u, ip), Decimal(port)),
                     encodeURIComponent(tag)))

renameURLLike(link, ip, port, tag) == RewriteParsed(link, ip, port, tag, ParseURL(link))

(***************************************************************************)
(* Maps (Map, and arrays with holes) as functions on a growing domain      *)
(***************************************************************************)

EmptyMap == <<>>

Has(m, k) == k \in DOMAIN m

Put(m, k, v) == [x \in (DOMAIN m) \cup {k} |-> IF x = k THEN v ELSE m[x]]

Count(m, k) == IF k \in DOMAIN m THEN m[k] ELSE 0

Bump(m, k) == Put(m, k, Count(m, k) + 1)

\* The observer's note of a first value: a later one leaves it.
PutFirst(m, k, v) == IF Has(m, k) THEN m ELSE Put(m, k, v)

(***************************************************************************)
(* The inputs: links as the extractor's pattern finds them, the answers of *)
(* the resolver and of the geo service, the random draws                   *)
(***************************************************************************)

\* ss://h:1
LinkHostA == S(<<"s", "s", ":", "/", "/", "h", ":", "1">>)

\* ss://u@h , the same host in another link
LinkHostB == S(<<"s", "s", ":", "/", "/", "u", "@", "h">>)

\* ss://2.2.2.2 , an IP literal
LinkLiteral == S(<<"s", "s", ":", "/", "/", "2", ".", "2", ".", "2", ".", "2">>)

\* vmess://eyJhZGQiOiJoIiwicHMiOiJ4In0= , the payload {"add":"h","ps":"x"}
LinkVmess ==
    S(<<"v", "m", "e", "s", "s", ":", "/", "/",
        "e", "y", "J", "h", "Z", "G", "Q", "i", "O", "i", "J", "o", "I", "i", "w", "i",
        "c", "H", "M", "i", "O", "i", "J", "4", "I", "n", "0", "=">>)

\* vmess://e30=| , the payload {} in a link that is no URL
LinkVmessNoHost ==
    S(<<"v", "m", "e", "s", "s", ":", "/", "/", "e", "3", "0", "=", "|">>)

\* ss://h:x , no URL either (the port is no number)
LinkNoHost == S(<<"s", "s", ":", "/", "/", "h", ":", "x">>)

\* HY2://h , a blocked protocol
LinkBlocked == S(<<"H", "Y", "2", ":", "/", "/", "h">>)

\* The links above.  The extractor keeps the distinct links of the sources in
\* a Set, so a list of links holds no link twice.
LinkUniverse ==
    <<LinkHostA, LinkHostB, LinkLiteral, LinkVmess, LinkVmessNoHost, LinkNoHost, LinkBlocked>>

RECURSIVE Pick(_, _, _)
\* The elements of list at the positions in set, from position k on, in order.
Pick(list, set, k) ==
    IF k > Len(list) THEN <<>>
    ELSE (IF k \in set THEN <<list[k]>> ELSE <<>>) \o Pick(list, set, k + 1)

\* The address a successful dns.lookup answers with: 2.2.2.2
DnsAddress == S(<<"2", ".", "2", ".", "2", ".", "2">>)

\* A lookup resolves with the address or rejects (NoValue).
DnsAnswers == {DnsAddress, NoValue}

\* axios.get resolves with a body that has a country_code or has none (as a
\* non-success status does, validateStatus accepting every status), or it
\* rejects (timeout, network error).
GeoOutcomes ==
    { [threw |-> FALSE, data |-> [country_code |-> S(<<"u", "s">>)]],
      [threw |-> FALSE, data |-> [country_code |-> NoValue]],
      [threw |-> TRUE] }

RandDraws == {RandMin, RandMax - 1}

MaxItems == 2

MaxLimit == 2

\* The lists of at most MaxItems links, in the order of LinkUniverse.
ItemLists ==
    {Pick(LinkUniverse, set, 1) :
        set \in {x \in SUBSET (1..Len(LinkUniverse)) : Cardinality(x) <= MaxItems}}

(***************************************************************************)
(* parallelMap(items, limit, renameLink)                                   *)
(***************************************************************************)

NoEffects == [dns |-> 0, geo |-> 0, draw |-> 0, ipSet |-> 0, geoSet |-> 0, tagSet |-> 0]

\* A worker that holds no item.  idx and the locals of renameLink are those
\* of the invocation the worker awaits.
IdleWorker ==
    [pc |-> "done", idx |-> -1, link |-> <<>>, host |-> <<>>, ip |-> NoValue,
     cc |-> NoValue, tag |-> NoValue, out |-> NoValue, eff |-> NoEffects]

\* The state one synchronous stretch of code works on.
Ctx ==
    [items |-> items, i |-> i, ipCache |-> ipCache, workers |-> workers,
     fnCalls |-> fnCalls, calls |-> calls, order |-> order, firstIP |-> firstIP,
     dnsLookups |-> dnsLookups, geoRequests |-> geoRequests]

\* renameLink's promise settles with out; the worker's await resumes later.
Settle(c, w, out) ==
    LET wk == c.workers[w]
    IN  [c EXCEPT !.workers[w] = [IdleWorker EXCEPT !.pc = "ret", !.idx = wk.idx, !.out = out],
                  !.calls = Put(@, wk.idx,
                                [link |-> wk.link, host |-> wk.host, ip |-> wk.ip,
                                 tag |-> wk.tag, out |-> out, eff |-> wk.eff]),
                  !.order = Append(@, wk.idx)]

\* geoCache.has(ip)
GeoCacheHit(cache, ip) == Has(cache, ip)

\* getCountryCode(ip) up to its await: a hit returns the cached code, a miss
\* issues the request.
EnterGetCountryCode(c, w) ==
    LET ip == c.workers[w].ip
    IN  IF GeoCacheHit(geoCache, ip)
        THEN [c EXCEPT !.workers[w].pc = "gotCC", !.workers[w].cc = geoCache[ip]]
        ELSE [c EXCEPT !.workers[w].pc = "geo", !.workers[w].eff.geo = @ + 1,
                       !.geoRequests = Bump(@, ip)]

\* tagCache.has(ip)
TagCacheHit(cache, ip) == Has(cache, ip)

\* buildTag(ip) up to its await.
EnterBuildTag(c, w) ==
    LET ip == c.workers[w].ip
    IN  IF TagCacheHit(tagCache, ip)
        THEN [c EXCEPT !.workers[w].pc = "gotTag", !.workers[w].tag = tagCache[ip]]
        ELSE EnterGetCountryCode(c, w)

\* A variant that never finds the host in the cache.
IpCacheNeverHit(cache, host) == FALSE

\* ipCache.has(host)
IpCacheHit(cache, host) == Has(cache, host)

\* resolveIP(host) up to its await: a hit returns the cached value, an IP
\* literal is stored and returned, any other host is looked up.
EnterResolveIP(c, w) ==
    LET host == c.workers[w].host
    IN  IF IpCacheHit(c.ipCache, host)
        THEN [c EXCEPT !.workers[w].pc = "gotIP", !.workers[w].ip = c.ipCache[host]]
        ELSE IF isIP(host)
        THEN [c EXCEPT !.workers[w].pc = "gotIP", !.workers[w].ip = host,
                       !.workers[w].eff.ipSet = @ + 1,
                       !.ipCache = Put(@, host, host),
                       !.firstIP = PutFirst(@, host, host)]
        ELSE [c EXCEPT !.workers[w].pc = "dns", !.workers[w].eff.dns = @ + 1,
                       !.dnsLookups = Bump(@, host)]

\* renameLink, its protocol and host known, up to its first await.
Dispatch(c, w, link, proto, host) ==
    IF IsBlocked(proto) THEN Settle(c, w, link)
    ELSE IF proto = VMESS
    THEN (IF host # <<>> THEN EnterResolveIP([c EXCEPT !.workers[w].host = host], w)
          ELSE EnterBuildTag([c EXCEPT !.workers[w].ip = NoHostIP], w))
    ELSE IF host = <<>> THEN Settle(c, w, link)
    ELSE EnterResolveIP([c EXCEPT !.workers[w].host = host], w)

\* renameLink(link), called for index idx, up to its first await.
EnterRenameLink(c, w, link, idx) ==
    Dispatch([c EXCEPT !.workers[w] = [IdleWorker EXCEPT !.pc = "fn", !.idx = idx,
                                                         !.link = link],
                       !.fnCalls = Bump(@, idx)],
             w, link, detectProtocol(link), extractHost(link))

\* A variant whose claim leaves the counter where it is.
NextCounterStuck(n) == n

\* const idx = i++ : the counter after the claim.
NextCounter(n) == n + 1

\* worker(), at the head of its loop: claim the next index and call fn, or
\* finish.
WorkerLoop(c, w) ==
    IF c.i < Len(c.items)
    THEN EnterRenameLink([c EXCEPT !.i = NextCounter(c.i)], w, c.items[c.i + 1], c.i)
    ELSE [c EXCEPT !.workers[w] = IdleWorker]

\* A variant that starts one worker per item.
WorkerCountPerItem(lim, n) == n

\* Array.from({ length: limit }, worker): how many workers start.
WorkerCount(lim, n) == lim

RECURSIVE StartWorkers(_, _, _)
\* The workers w..n start one after the other, each running to its first await.
StartWorkers(c, w, n) ==
    IF w > n THEN c ELSE StartWorkers(WorkerLoop(c, w), w + 1, n)

Apply(c) ==
    /\ i' = c.i
    /\ ipCache' = c.ipCache
    /\ workers' = c.workers
    /\ fnCalls' = c.fnCalls
    /\ calls' = c.calls
    /\ order' = c.order
    /\ firstIP' = c.firstIP
    /\ dnsLookups' = c.dnsLookups
    /\ geoRequests' = c.geoRequests

\* parallelMap is called: res = [], i = 0, the workers start.
CallParallelMap ==
    /\ pm = "idle"
    /\ pm' = "running"
    /\ res' = EmptyMap
    /\ LET n == WorkerCount(limit, Len(items))
           c == [Ctx EXCEPT !.i = 0, !.workers = [w \in 1..n |-> IdleWorker],
                            !.fnCalls = EmptyMap, !.calls = EmptyMap, !.order = <<>>]
       IN  Apply(StartWorkers(c, 1, n))
    /\ UNCHANGED <<items, limit, geoCache, tagCache, probeVars, mainVars>>

\* A continuation is ready to run: the promise some worker awaits has settled.
\* The continuations of settled promises are promise jobs.
JobPending == \E w \in DOMAIN workers : workers[w].pc \in {"gotIP", "gotCC", "gotTag", "ret"}

\* dns.lookup and axios.get settle from I/O callbacks of the event loop, and
\* the event loop runs a callback only once the promise jobs have all run.
EventLoopTurn == ~JobPending

\* A variant without the catch block's fallback.
LookupResultNoFallback(host, ans) == IF ans = NoValue THEN <<>> ELSE ans

\* What resolveIP stores and returns once dns.lookup has settled with ans: the
\* address, or the host itself when the lookup rejected.
LookupResult(host, ans) == IF ans = NoValue THEN host ELSE ans

\* dns.lookup settles: resolveIP stores its result and returns it.
DnsComplete(w) ==
    /\ pm = "running"
    /\ EventLoopTurn
    /\ workers[w].pc = "dns"
    /\ \E ans \in DnsAnswers :
          LET host == workers[w].host
              ip   == LookupResult(host, ans)
          IN  /\ ipCache' = Put(ipCache, host, ip)
              /\ firstIP' = PutFirst(firstIP, host, ip)
              /\ workers' = [workers EXCEPT ![w].pc = "gotIP", ![w].ip = ip,
                                            ![w].eff.ipSet = @ + 1]
    /\ UNCHANGED <<geoCache, tagCache, items, limit, i, res, pm, probeVars, mainVars>>
    /\ UNCHANGED <<fnCalls, calls, order, dnsLookups, geoRequests>>

\* renameLink resumes with the ip and calls buildTag.
ResolveReturned(w) ==
    /\ pm = "running"
    /\ workers[w].pc = "gotIP"
    /\ Apply(EnterBuildTag(Ctx, w))
    /\ UNCHANGED <<geoCache, tagCache, items, limit, res, pm, probeVars, mainVars>>

\* The code getCountryCode returns for an outcome of the request.
GeoResult(outcome) == IF outcome.threw THEN UN ELSE CountryCodeOf(outcome.data)

\* Whether getCountryCode stores the code it returns for that outcome.
GeoStores(outcome) == ~outcome.threw

\* axios.get settles: getCountryCode returns the code.
GeoComplete(w) ==
    /\ pm = "running"
    /\ EventLoopTurn
    /\ workers[w].pc = "geo"
    /\ \E outcome \in GeoOutcomes :
          /\ geoCache' = IF GeoStores(outcome)
                         THEN Put(geoCache, workers[w].ip, GeoResult(outcome))
                         ELSE geoCache
          /\ workers' = [workers EXCEPT
                            ![w].pc = "gotCC", ![w].cc = GeoResult(outcome),
                            ![w].eff.geoSet = @ + (IF GeoStores(outcome) THEN 1 ELSE 0)]
    /\ UNCHANGED <<ipCache, tagCache, items, limit, i, res, pm, obsVars, probeVars, mainVars>>

\* buildTag resumes with the code, draws the number, stores and returns the tag.
BuildTagResume(w) ==
    /\ pm = "running"
    /\ workers[w].pc = "gotCC"
    /\ \E n \in RandDraws :
          LET tag == TagText(workers[w].cc, n)
          IN  /\ tagCache' = Put(tagCache, workers[w].ip, tag)
              /\ workers' = [workers EXCEPT ![w].pc = "gotTag", ![w].tag = tag,
                                            ![w].eff.draw = @ + 1, ![w].eff.tagSet = @ + 1]
    /\ UNCHANGED <<ipCache, geoCache, items, limit, i, res, pm, obsVars, probeVars, mainVars>>

\* What renameLink returns once it has the ip and the tag.
Rewrite(link, ip, tag) ==
    IF detectProtocol(link) = VMESS THEN renameVmessSafe(link, tag)
    ELSE renameURLLike(link, ip, RewritePort, tag)

\* renameLink resumes with the tag, rewrites the link and returns.
RenameResume(w) ==
    /\ pm = "running"
    /\ workers[w].pc = "gotTag"
    /\ Apply(Settle(Ctx, w, Rewrite(workers[w].link, workers[w].ip, workers[w].tag)))
    /\ UNCHANGED <<geoCache, tagCache, items, limit, res, pm, probeVars, mainVars>>

\* A variant that stores at the shared counter, not at the claimed index.
StoreIndexAtCounter(wk, counter) == counter

\* res[idx] = ... : the index the worker stores at.
StoreIndex(wk, counter) == wk.idx

\* The worker resumes with fn's value, stores it and goes round its loop.
WorkerResume(w) ==
    /\ pm = "running"
    /\ workers[w].pc = "ret"
    /\ res' = Put(res, StoreIndex(workers[w], i), workers[w].out)
    /\ Apply(WorkerLoop(Ctx, w))
    /\ UNCHANGED <<geoCache, tagCache, items, limit, pm, probeVars, mainVars>>

\* Promise.all settles once every worker has returned; parallelMap returns res.
PromiseAllResolve ==
    /\ pm = "running"
    /\ \A w \in DOMAIN workers : workers[w].pc = "done"
    /\ pm' = "resolved"
    /\ UNCHANGED <<cacheVars, items, limit, i, res, workers, obsVars, probeVars, mainVars>>

InitCaches ==
    /\ ipCache = EmptyMap
    /\ geoCache = EmptyMap
    /\ tagCache = EmptyMap

\* main is not running.
InitMainOff ==
    /\ mainPc = "off"
    /\ fetched = 0
    /\ all = <<>>
    /\ grouped = <<>>
    /\ gi = 0
    /\ saved = <<>>
    /\ dropped = {}

InitObserver ==
    /\ fnCalls = EmptyMap
    /\ calls = EmptyMap
    /\ order = <<>>
    /\ firstIP = EmptyMap
    /\ dnsLookups = EmptyMap
    /\ geoRequests = EmptyMap

\* One call parallelMap(items, limit, renameLink) on drawn arguments.
InitPM ==
    /\ InitCaches
    /\ InitObserver
    /\ items \in ItemLists
    /\ limit \in 1..MaxLimit
    /\ i = 0
    /\ res = EmptyMap
    /\ workers = <<>>
    /\ pm = "idle"
    /\ probe = <<>>
    /\ probeOut = NoValue
    /\ InitMainOff

NextPM ==
    \/ CallParallelMap
    \/ \E w \in DOMAIN workers : DnsComplete(w)
    \/ \E w \in DOMAIN workers : ResolveReturned(w)
    \/ \E w \in DOMAIN workers : GeoComplete(w)
    \/ \E w \in DOMAIN workers : BuildTagResume(w)
    \/ \E w \in DOMAIN workers : RenameResume(w)
    \/ \E w \in DOMAIN workers : WorkerResume(w)
    \/ PromiseAllResolve

SpecPM == InitPM /\ [][NextPM]_vars

(***************************************************************************)
(* main: the sources are fetched one after the other, their links are      *)
(* collected, grouped and renamed, all of them first and then protocol by  *)
(* protocol.  A text is the sequence of its words, the stretches between   *)
(* the whitespace.                                                         *)
(***************************************************************************)

MainLimit == 20

LightSize == 30

NumSources == 2

\* [\w+.-]
SchemeTail == (48..57) \cup (65..90) \cup (97..122) \cup {95, 43, 46, 45}

\* The positions of a word at which /[a-zA-Z][\w+.-]*:\/\/[^\s]+/ matches.
MatchStarts(word) ==
    {p \in 1..Len(word) :
        /\ IsAlpha(word[p])
        /\ \E q \in p..(Len(word) - 4) :
              /\ \A j \in (p + 1)..q : word[j] \in SchemeTail
              /\ SubSeq(word, q + 1, q + 3) = SchemeSep}

\* The match in a word: from the leftmost of the positions to the word's end.
MatchFrom(word, starts) == From(word, CHOOSE p \in starts : \A q \in starts : p <= q)

RECURSIVE Matches(_)
\* raw.match(/[a-zA-Z][\w+.-]*:\/\/[^\s]+/g) || []
Matches(text) ==
    IF text = <<>> THEN <<>>
    ELSE (IF MatchStarts(Head(text)) = {} THEN <<>>
          ELSE <<MatchFrom(Head(text), MatchStarts(Head(text)))>>)
         \o Matches(Tail(text))

AdmittedAlways(link) == TRUE

\* !BLOCKED_PROTOCOLS.has(detectProtocol(l))
Admitted(link) == ~IsBlocked(detectProtocol(link))

RECURSIVE AddMatches(_, _)
\* matches.forEach: all.add(l) for the links that are admitted.
AddMatches(set, links) ==
    IF links = <<>> THEN set
    ELSE AddMatches(IF Admitted(Head(links)) /\ \A k \in 1..Len(set) : set[k] # Head(links)
                    THEN Append(set, Head(links)) ELSE set,
                    Tail(links))

\* Names a fresh object inherits from Object.prototype.  The others hold a
\* capital letter, which no lowercased scheme does.
ObjectPrototypeKeys ==
    { S(<<"c", "o", "n", "s", "t", "r", "u", "c", "t", "o", "r">>),
      S(<<"_", "_", "p", "r", "o", "t", "o", "_", "_">>) }

GroupFailure == [ok |-> FALSE]

\* acc[p].push(l) for a key acc owns.
Push(acc, p, link) ==
    [q \in 1..Len(acc) |-> IF acc[q].k = p THEN [k |-> p, v |-> Append(acc[q].v, link)]
                           ELSE acc[q]]

RECURSIVE GroupFrom(_, _), GroupStep(_, _, _)

\* The reducer, for the link at the head of links and its protocol p.  For a
\* key acc does not own, acc[p] ??= [] assigns unless acc inherits a value for
\* p, and then acc[p].push is no function: a TypeError.
GroupStep(acc, links, p) ==
    IF IsBlocked(p) THEN GroupFrom(acc, Tail(links))
    ELSE IF \E q \in 1..Len(acc) : acc[q].k = p
    THEN GroupFrom(Push(acc, p, Head(links)), Tail(links))
    ELSE IF p \in ObjectPrototypeKeys THEN GroupFailure
    ELSE GroupFrom(Append(acc, [k |-> p, v |-> <<Head(links)>>]), Tail(links))

GroupFrom(acc, links) ==
    IF links = <<>> THEN [ok |-> TRUE, groups |-> acc]
    ELSE GroupStep(acc, links, detectProtocol(Head(links)))

\* groupByProtocol(links): the groups in key order, or the TypeError.
groupByProtocol(links) == GroupFrom(<<>>, links)

\* saveFile: nothing is written for an empty list.
saveFile(files, kind, proto, lines) ==
    IF lines = <<>> THEN files
    ELSE Append(files, [kind |-> kind, proto |-> proto, lines |-> lines])

\* The array parallelMap returns.
ResultList == [k \in 1..Len(items) |-> res[k - 1]]

\* list.slice(0, n)
Slice(list, n) == SubSeq(list, 1, IF n < Len(list) THEN n ELSE Len(list))

\* x,SS://u@h , a match that begins inside the word
WordHostB == S(<<"x", ",", "S", "S", ":", "/", "/", "u", "@", "h">>)

WordPlain == S(<<"a", ":", "/", "b">>)

\* constructor://x
WordConstructor ==
    S(<<"c", "o", "n", "s", "t", "r", "u", "c", "t", "o", "r", ":", "/", "/", "x">>)

\* What fetchText can return: a text, or "" when the request fails.  The
\* texts hold a blocked link, a word without a link, one link twice, and two
\* links of one host.
SourceTexts ==
    { <<>>,
      <<LinkVmessNoHost, LinkBlocked>>,
      <<WordPlain, WordHostB, From(WordHostB, 3)>>,
      <<LinkHostA>>,
      <<WordConstructor>> }

\* main calls parallelMap(list, 20, renameLink) and awaits it: res = [],
\* i = 0, the workers start.
StartPass(list) ==
    /\ items' = list
    /\ limit' = MainLimit
    /\ res' = EmptyMap
    /\ pm' = "running"
    /\ LET n == WorkerCount(MainLimit, Len(list))
           c == [Ctx EXCEPT !.items = list, !.i = 0,
                            !.workers = [w \in 1..n |-> IdleWorker],
                            !.fnCalls = EmptyMap, !.calls = EmptyMap, !.order = <<>>]
       IN  Apply(StartWorkers(c, 1, n))

\* main calls nothing.
NoPass == UNCHANGED <<pmVars, obsVars, ipCache>>

\* The sources are read: unique = [...all], grouped = groupByProtocol(unique),
\* the first parallelMap is called.  The TypeError of groupByProtocol rejects
\* main's promise.
AfterSources(unique, g) ==
    IF g.ok
    THEN /\ mainPc' = "pass1"
         /\ grouped' = g.groups
         /\ StartPass(unique)
    ELSE /\ mainPc' = "fatal"
         /\ grouped' = grouped
         /\ NoPass

\* The links of a text are added to the Set; the loop goes to the next source
\* or ends.
Absorb(links, set) ==
    /\ all' = set
    /\ dropped' = dropped \cup {links[k] : k \in {q \in 1..Len(links) : ~Admitted(links[q])}}
    /\ fetched' = fetched + 1
    /\ IF fetched + 1 < NumSources
       THEN mainPc' = "fetch" /\ grouped' = grouped /\ NoPass
       ELSE \E g \in {groupByProtocol(set)} : AfterSources(set, g)

\* await fetchText(url) resumes with a text.
FetchReturned ==
    /\ mainPc = "fetch"
    /\ \E text \in SourceTexts :
          \E links \in {Matches(text)} :
              \E set \in {AddMatches(all, links)} : Absorb(links, set)
    /\ UNCHANGED <<geoCache, tagCache, gi, saved, probeVars>>

\* The files main writes once a parallelMap has returned lines.
Written(lines) ==
    IF mainPc = "pass1"
    THEN saveFile(saveFile(saved, "all", <<>>, lines), "light", <<>>, Slice(lines, LightSize))
    ELSE saveFile(saved, "proto", grouped[gi].k, lines)

\* await parallelMap(...) resumes: the lines are saved, and the next
\* protocol's parallelMap is called or main is done.
PassReturned ==
    /\ mainPc \in {"pass1", "protos"}
    /\ pm = "resolved"
    /\ saved' = Written(ResultList)
    /\ IF gi < Len(grouped)
       THEN gi' = gi + 1 /\ mainPc' = "protos" /\ StartPass(grouped[gi + 1].v)
       ELSE gi' = gi /\ mainPc' = "done" /\ NoPass
    /\ UNCHANGED <<geoCache, tagCache, fetched, all, grouped, dropped, probeVars>>

\* main is called and awaits the first source.
Init ==
    /\ InitCaches
    /\ InitObserver
    /\ items = <<>>
    /\ limit = MainLimit
    /\ i = 0
    /\ res = EmptyMap
    /\ workers = <<>>
    /\ pm = "idle"
    /\ probe = <<>>
    /\ probeOut = NoValue
    /\ mainPc = "fetch"
    /\ fetched = 0
    /\ all = <<>>
    /\ grouped = <<>>
    /\ gi = 0
    /\ saved = <<>>
    /\ dropped = {}

Next ==
    \/ FetchReturned
    \/ \E w \in DOMAIN workers : DnsComplete(w)
    \/ \E w \in DOMAIN workers : ResolveReturned(w)
    \/ \E w \in DOMAIN workers : GeoComplete(w)
    \/ \E w \in DOMAIN workers : BuildTagResume(w)
    \/ \E w \in DOMAIN workers : RenameResume(w)
    \/ \E w \in DOMAIN workers : WorkerResume(w)
    \/ PromiseAllResolve
    \/ PassReturned

Spec == Init /\ [][Next]_vars

(***************************************************************************)
(* Pure functions applied to drawn arguments                               *)
(***************************************************************************)

MaxProbeLen == 5

\* "a", "A", ":", "/"
ProbeAlphabet == {97, 65, 58, 47}

ProbeStrings ==
    UNION {[1..n -> ProbeAlphabet] : n \in 0..MaxProbeLen}

InitDetect ==
    /\ InitCaches
    /\ InitObserver
    /\ items = <<>>
    /\ limit = 1
    /\ i = 0
    /\ res = EmptyMap
    /\ workers = <<>>
    /\ pm = "idle"
    /\ probe \in ProbeStrings
    /\ probeOut = NoValue
    /\ InitMainOff

CallDetectProtocol ==
    /\ probeOut = NoValue
    /\ probeOut' = detectProtocol(probe)
    /\ UNCHANGED <<probe, cacheVars, pmVars, obsVars, mainVars>>

NextDetect == CallDetectProtocol

SpecDetect == InitDetect /\ [][NextDetect]_vars

(***************************************************************************)
(* renameVmessSafe and renameURLLike applied to drawn arguments            *)
(***************************************************************************)

\* VMESS://eyJhZGQiOiJoIiwicHMiOiJ4In0= , LinkVmess with its scheme in capitals
LinkVmessUpper == ToUpperCase(SubSeq(LinkVmess, 1, 5)) \o From(LinkVmess, 6)

\* vmess://abc , a payload that is no JSON text
LinkVmessBad == S(<<"v", "m", "e", "s", "s", ":", "/", "/", "a", "b", "c">>)

\* vmess://MTIz , the payload 123
LinkVmessNumber == S(<<"v", "m", "e", "s", "s", ":", "/", "/", "M", "T", "I", "z">>)

\* vmess://bnVsbA== , the payload null
LinkVmessNull ==
    S(<<"v", "m", "e", "s", "s", ":", "/", "/", "b", "n", "V", "s", "b", "A", "=", "=">>)

RenameLinks ==
    { LinkVmess, LinkVmessNoHost, LinkVmessUpper, LinkVmessBad, LinkVmessNumber,
      LinkVmessNull, LinkHostA, LinkHostB, LinkNoHost }

\* The tags buildTag can build from the country codes and the draws at hand.
RenameTags ==
    {TagText(cc, n) : cc \in {S(<<"U", "S">>), UN, S(<<"U", "S", "A">>)}, n \in RandDraws}

\* The values resolveIP can return for the host h.
RenameIPs == {DnsAddress, S(<<"h">>)}

RenameFunctions == {"renameVmessSafe", "renameURLLike"}

InitRename ==
    /\ InitCaches
    /\ InitObserver
    /\ items = <<>>
    /\ limit = 1
    /\ i = 0
    /\ res = EmptyMap
    /\ workers = <<>>
    /\ pm = "idle"
    /\ probe \in [fn : RenameFunctions, link : RenameLinks, ip : RenameIPs,
                  tag : RenameTags]
    /\ probeOut = NoValue
    /\ InitMainOff

CallRename ==
    /\ pm = "idle"
    /\ probe # <<>>
    /\ probeOut = NoValue
    /\ probeOut' = IF probe.fn = "renameVmessSafe"
                   THEN renameVmessSafe(probe.link, probe.tag)
                   ELSE renameURLLike(probe.link, probe.ip, RewritePort, probe.tag)
    /\ UNCHANGED <<probe, cacheVars, pmVars, obsVars, mainVars>>

NextRename == CallRename

SpecRename == InitRename /\ [][NextRename]_vars

\* The three rename functions: renameLink under parallelMap, the other two on
\* their own.
InitRenameAll == InitPM \/ InitRename

NextRenameAll == NextPM \/ NextRename

SpecRenameAll == InitRenameAll /\ [][NextRenameAll]_vars

(***************************************************************************)
(* Properties                                                              *)
(***************************************************************************)

\* C1: when parallelMap resolves, the result has one entry per item, and the
\* entry at each index is the value fn returned for the item at that index,
\* in whatever order the invocations completed.
C1_ResultInItemOrder ==
    pm = "resolved" =>
        /\ DOMAIN res = 0..(Len(items) - 1)
        /\ \A idx \in 0..(Len(items) - 1) :
              /\ idx \in DOMAIN calls
              /\ calls[idx].link = items[idx + 1]
              /\ res[idx] = calls[idx].out

\* parallelMap has resolved, and the invocation for a later index settled
\* before the invocation for an earlier one.
C1_Witness_CompletedOutOfOrder ==
    /\ pm = "resolved"
    /\ \E a, b \in 1..Len(order) : a < b /\ order[a] > order[b]

RECURSIVE Total(_, _)
\* The sum of the counts m holds for the keys in set.
Total(m, set) ==
    IF set = {} THEN 0
    ELSE LET k == CHOOSE x \in set : TRUE IN m[k] + Total(m, set \ {k})

\* The invocations of fn that have started and have not settled.
InFlight == Total(fnCalls, DOMAIN fnCalls) - Len(order)

\* C2: at every moment at most limit invocations of fn have started and not
\* yet completed.
C2_AtMostLimitInFlight == InFlight <= limit

\* limit invocations are in flight while items still wait to be claimed.
C2_Witness_LimitReachedItemsWaiting ==
    /\ pm = "running"
    /\ InFlight = limit
    /\ i < Len(items)

\* C3: fn is invoked for no index twice and for no index outside the items,
\* and when parallelMap resolves it has been invoked exactly once for every
\* index and every index holds its result.
C3_EachIndexExactlyOnce ==
    /\ \A idx \in DOMAIN fnCalls : idx \in 0..(Len(items) - 1) /\ fnCalls[idx] = 1
    /\ pm = "resolved" =>
          \A idx \in 0..(Len(items) - 1) : Count(fnCalls, idx) = 1 /\ idx \in DOMAIN res

\* parallelMap has resolved after several workers shared several items.
C3_Witness_WorkersSharedItems ==
    /\ pm = "resolved"
    /\ limit >= 2
    /\ Len(items) >= 2
    /\ \A idx \in 0..(Len(items) - 1) : Count(fnCalls, idx) = 1

\* C4: any two links that resolve to the same IP are renamed with the same
\* tag, under every interleaving the concurrency budget allows.
C4_SameIpSameTag ==
    \A a, b \in DOMAIN calls :
        (calls[a].tag # NoValue /\ calls[b].tag # NoValue /\ calls[a].ip = calls[b].ip)
            => calls[a].tag = calls[b].tag

\* C5, as stated: no host is looked up more than once.
C5_OneLookupPerHost == \A host \in DOMAIN dnsLookups : dnsLookups[host] <= 1

\* C5, amended: once ipCache holds an entry for a host, no step issues a DNS
\* lookup for that host.
C5_NoLookupOnceCached ==
    [][\A host \in DOMAIN ipCache : Count(dnsLookups', host) = Count(dnsLookups, host)]_vars

\* Two links of one host have been renamed, the second served from ipCache:
\* the host was looked up once.
C5_Witness_SecondCallServedFromCache ==
    \E a, b \in DOMAIN calls :
        /\ a # b
        /\ calls[a].host = calls[b].host
        /\ calls[a].eff.dns = 1
        /\ calls[b].eff.dns = 0
        /\ calls[b].ip # NoValue
        /\ Count(dnsLookups, calls[a].host) = 1

\* C6: once getCountryCode(ip) has returned, the request having failed or
\* not, geoCache holds an entry for ip.
C6_GeoCachedAfterReturn ==
    \A w \in DOMAIN workers : workers[w].pc = "gotCC" => Has(geoCache, workers[w].ip)

\* C7: renameLink returns a link of a non-blocked protocol and an empty host
\* unchanged, vmess links included, and performs no DNS lookup, no geo
\* request and no tag construction for it.
C7_EmptyHostLinkUntouched ==
    \A idx \in DOMAIN calls :
        (/\ detectProtocol(calls[idx].link) \notin BLOCKED_PROTOCOLS
         /\ extractHost(calls[idx].link) = <<>>)
            => /\ calls[idx].out = calls[idx].link
               /\ calls[idx].eff.dns = 0
               /\ calls[idx].eff.geo = 0
               /\ calls[idx].eff.draw = 0

\* C8: renameLink returns a link of a blocked protocol unchanged, resolves no
\* host, requests no country, builds no tag and writes to none of ipCache,
\* geoCache, tagCache.
C8_BlockedLinkUntouched ==
    \A idx \in DOMAIN calls :
        detectProtocol(calls[idx].link) \in BLOCKED_PROTOCOLS
            => /\ calls[idx].out = calls[idx].link
               /\ calls[idx].eff = NoEffects

\* A link of a blocked protocol has been through renameLink.
C8_Witness_BlockedLinkRenamed ==
    \E idx \in DOMAIN calls :
        /\ detectProtocol(calls[idx].link) \in BLOCKED_PROTOCOLS
        /\ extractHost(calls[idx].link) # <<>>

\* C9: detectProtocol(link) is the lowercased text before the first "://" when
\* the link contains "://", and "unknown" when the link contains no "://".
C9_DetectProtocolAsClaimed ==
    probeOut # NoValue =>
        IF Contains(probe, SchemeSep)
        THEN probeOut = ToLowerCase(SubSeq(probe, 1, IndexOf(probe, SchemeSep) - 1))
        ELSE probeOut = UNKNOWN

\* The payload of a vmess link, decoded and parsed.
VmessPayload(link) == JSONParse(b64Decode(Trim(ReplaceFirst(link, VmessPrefix, <<>>))))

\* A parsed payload that is a JSON object.
IsObject(payload) == payload.ok /\ payload.val.t = "object"

Undefined == [t |-> "undefined", v |-> 0]

\* obj[key]
Property(members, key) ==
    IF \E q \in 1..Len(members) : members[q].k = key
    THEN members[CHOOSE q \in 1..Len(members) : members[q].k = key].v
    ELSE Undefined

IsString(val, str) == val.t = "string" /\ val.v = str

SameValue(x, y) == x.t = y.t /\ (x.t = "undefined" \/ x.v = y.v)

ADD == S(<<"a", "d", "d">>)

\* The output is a vmess link whose payload is an object with add = ip and
\* ps = tag.
AddIsIpPsIsTag(call, payload) ==
    /\ detectProtocol(call.out) = VMESS
    /\ IsObject(payload)
    /\ IsString(Property(payload.val.v, ADD), call.ip)
    /\ IsString(Property(payload.val.v, PS), call.tag)

\* The output is a vmess link whose payload is an object with ps = tag and
\* the add of the input payload.
PsIsTagAddKept(call, payload, given) ==
    /\ detectProtocol(call.out) = VMESS
    /\ IsObject(payload)
    /\ IsString(Property(payload.val.v, PS), call.tag)
    /\ SameValue(Property(payload.val.v, ADD), Property(given.val.v, ADD))

\* The indices whose renameLink call has returned to a worker that has not yet
\* resumed.  Every call is among them in the state its return leads to.
Returned == {workers[w].idx : w \in {x \in DOMAIN workers : workers[x].pc = "ret"}}

SchemePayload(link) == JSONParse(b64Decode(From(link, IndexOf(link, SchemeSep) + 3)))

\* Every key of members other than ps is a key of others with the same value.
FieldsKept(members, others) ==
    \A q \in 1..Len(members) :
        members[q].k # PS => SameValue(members[q].v, Property(others, members[q].k))

\* C11: for a vmess link whose payload is a base64-encoded JSON object, the
\* payload of renameVmessSafe(link, tag) decodes to an object whose ps is tag
\* and whose other fields have the keys and values of the original payload.
C11_VmessRoundTrip ==
    (/\ probeOut # NoValue
     /\ probe.fn = "renameVmessSafe"
     /\ detectProtocol(probe.link) = VMESS
     /\ IsObject(SchemePayload(probe.link)))
        => /\ detectProtocol(probeOut) = VMESS
           /\ IsObject(SchemePayload(probeOut))
           /\ IsString(Property(SchemePayload(probeOut).val.v, PS), probe.tag)
           /\ FieldsKept(SchemePayload(probe.link).val.v, SchemePayload(probeOut).val.v)
           /\ FieldsKept(SchemePayload(probeOut).val.v, SchemePayload(probe.link).val.v)

\* C12: when the geo service answers without a country code, getCountryCode
\* returns UN, renameLink goes on, and the tag it builds starts with the
\* neutral placeholder glyph, not with a regional-indicator flag.
C12_NoCountryCodeNeutralFlag ==
    \A w \in DOMAIN workers :
        (/\ workers[w].pc = "gotTag"
         /\ workers[w].eff.geoSet = 1
         /\ workers[w].cc = UN)
            => SubSeq(workers[w].tag, 1, Len(NeutralFlag)) = NeutralFlag

\* The lines of every list main has passed to saveFile.
SavedLines ==
    UNION {{saved[f].lines[k] : k \in DOMAIN saved[f].lines} : f \in DOMAIN saved}

\* C13: whatever the sources hold, no link of a blocked protocol, in any
\* letter case of its scheme, is among the collected links, in a list handed
\* to the enrichment or in a list passed to saveFile (aggregate, light or
\* per-protocol), and no group or per-protocol file is keyed by a blocked
\* protocol.
C13_NoBlockedLinkSaved ==
    /\ \A k \in DOMAIN all : detectProtocol(all[k]) \notin BLOCKED_PROTOCOLS
    /\ \A k \in DOMAIN items : detectProtocol(items[k]) \notin BLOCKED_PROTOCOLS
    /\ \A line \in SavedLines : detectProtocol(line) \notin BLOCKED_PROTOCOLS
    /\ \A g \in DOMAIN grouped :
          /\ grouped[g].k \notin BLOCKED_PROTOCOLS
          /\ \A k \in DOMAIN grouped[g].v :
                detectProtocol(grouped[g].v[k]) \notin BLOCKED_PROTOCOLS
    /\ \A f \in DOMAIN saved :
          saved[f].kind = "proto" => saved[f].proto \notin BLOCKED_PROTOCOLS

\* main is done, the sources held a blocked link, and files were written.
C13_Witness_BlockedLinkInSources ==
    /\ mainPc = "done"
    /\ dropped # {}
    /\ \E f \in DOMAIN saved : saved[f].kind = "proto"

\* C14: when resolveIP returns for a non-empty host, it returns a non-empty
\* string that ipCache holds under the host: the host itself, and without a
\* lookup, when the host is an IP literal, and after a lookup either the
\* address (the lookup succeeded) or the host (it failed).
C14_ResolveIPReturnsCachedString ==
    \A w \in DOMAIN workers :
        (workers[w].pc = "gotIP" /\ workers[w].host # <<>>)
            => /\ workers[w].ip # NoValue
               /\ workers[w].ip # <<>>
               /\ Has(ipCache, workers[w].host)
               /\ ipCache[workers[w].host] = workers[w].ip
               /\ isIP(workers[w].host)
                     => workers[w].ip = workers[w].host /\ workers[w].eff.dns = 0
               /\ workers[w].eff.dns = 1
                     => workers[w].ip \in {DnsAddress, workers[w].host}

\* resolveIP returns the host after a lookup that failed.
C14_Witness_LookupFailedHostReturned ==
    \E w \in DOMAIN workers :
        /\ workers[w].pc = "gotIP"
        /\ workers[w].eff.dns = 1
        /\ ~isIP(workers[w].host)
        /\ workers[w].ip = workers[w].host

\* C15: renameLink, renameVmessSafe and renameURLLike return a string whatever
\* the link and whatever the DNS and geo calls did; renameVmessSafe, and
\* renameLink for a vmess link, return the link itself when its payload does
\* not parse, and renameURLLike, and renameLink for any other link, return the
\* link itself when it does not parse as a URL.
C15_RenameTotal ==
    /\ probeOut # NoValue
          => /\ probeOut \in Seq(Nat)
             /\ (probe.fn = "renameVmessSafe" /\ ~VmessPayload(probe.link).ok)
                   => probeOut = probe.link
             /\ (probe.fn = "renameURLLike" /\ ~ParseURL(probe.link).ok)
                   => probeOut = probe.link
    /\ \A idx \in Returned :
          /\ calls[idx].out \in Seq(Nat)
          /\ (detectProtocol(calls[idx].link) = VMESS /\ ~VmessPayload(calls[idx].link).ok)
                => calls[idx].out = calls[idx].link
          /\ (detectProtocol(calls[idx].link) # VMESS /\ ~ParseURL(calls[idx].link).ok)
                => calls[idx].out = calls[idx].link

\* renameURLLike has returned for a link that is no URL.
C15_Witness_UnparsableLinkReturned ==
    /\ probeOut # NoValue
    /\ probe.fn = "renameURLLike"
    /\ ~ParseURL(probe.link).ok
    /\ probeOut = probe.link

\* C16: renameLink returns a link of the protocol of the link it was given,
\* and every line of a per-protocol file classifies to the protocol the file
\* is named for.
C16_RewritingKeepsProtocol ==
    /\ \A idx \in Returned :
          detectProtocol(calls[idx].out) = detectProtocol(calls[idx].link)
    /\ \A f \in DOMAIN saved :
          saved[f].kind = "proto"
              => \A k \in DOMAIN saved[f].lines :
                    detectProtocol(saved[f].lines[k]) = saved[f].proto

\* A per-protocol file holds a rewritten link whose scheme was written in
\* capitals in the source.
C16_Witness_CapitalSchemeRewritten ==
    \E f \in DOMAIN saved :
        /\ saved[f].kind = "proto"
        /\ \E g \in DOMAIN grouped :
              /\ grouped[g].k = saved[f].proto
              /\ \E k \in DOMAIN grouped[g].v :
                    /\ grouped[g].v[k] # saved[f].lines[k]
                    /\ SplitHead(grouped[g].v[k], SchemeSep) # saved[f].proto

\* Worker w has called resolveIP(host) in this step, a call resolveIP(host)
\* having completed before the step: ipCache holds the host exactly then.
LaterCall(w, host) ==
    /\ host \in DOMAIN ipCache
    /\ w \notin DOMAIN workers \/ workers[w].pc \in {"ret", "done"}
    /\ workers'[w].pc \in {"dns", "gotIP"}
    /\ workers'[w].host = host

\* C17, as stated: a call resolveIP(host) made after a call resolveIP(host)
\* has completed issues no lookup and returns what the first call to
\* complete returned.
C17_LaterCallReturnsFirstValue ==
    [][\A w \in DOMAIN workers' : \A host \in DOMAIN ipCache :
          LaterCall(w, host)
              => /\ workers'[w].pc = "gotIP"
                 /\ workers'[w].eff.dns = 0
                 /\ Count(dnsLookups', host) = Count(dnsLookups, host)
                 /\ workers'[w].ip = firstIP[host]]_vars

\* C17, amended: such a call issues no lookup and returns the value ipCache
\* holds for the host, which is what the last call to complete returned.
C17_LaterCallReturnsCachedValue ==
    [][\A w \in DOMAIN workers' : \A host \in DOMAIN ipCache :
          LaterCall(w, host)
              => /\ workers'[w].pc = "gotIP"
                 /\ workers'[w].eff.dns = 0
                 /\ Count(dnsLookups', host) = Count(dnsLookups, host)
                 /\ workers'[w].ip = ipCache[host]]_vars

\* In a per-protocol pass, resolveIP has returned from the cache for a host
\* for which the first call to complete returned another value.
C17_Witness_CachedValueNotTheFirst ==
    /\ mainPc = "protos"
    /\ \E w \in DOMAIN workers :
          /\ workers[w].pc = "gotIP"
          /\ workers[w].eff.dns = 0
          /\ workers[w].eff.ipSet = 0
          /\ workers[w].host \in DOMAIN firstIP
          /\ workers[w].ip # firstIP[workers[w].host]

\* The links of a list that classify to a protocol, in the list's order.
OfProtocol(links, p) == SelectSeq(links, LAMBDA l : detectProtocol(l) = p)

\* g is the mapping of links by protocol: it came without a failure, it has a
\* group, not empty and not blocked, for each protocol of a non-blocked link,
\* and each group holds the links of its protocol in their order in links.
GroupsPartition(links, g) ==
    /\ g.ok
    /\ \A q, r \in DOMAIN g.groups : g.groups[q].k = g.groups[r].k => q = r
    /\ \A q \in DOMAIN g.groups :
          /\ ~IsBlocked(g.groups[q].k)
          /\ g.groups[q].v # <<>>
          /\ g.groups[q].v = OfProtocol(links, g.groups[q].k)
    /\ \A k \in DOMAIN links :
          ~IsBlocked(detectProtocol(links[k]))
              => \E q \in DOMAIN g.groups : g.groups[q].k = detectProtocol(links[k])

\* C18: for the links the extractor has collected, whatever their schemes,
\* groupByProtocol returns, without failing, a mapping in which every
\* non-blocked link is once under the key detectProtocol(link), in input
\* order, with no blocked link and no empty group.
C18_GroupByProtocolPartitions ==
    fetched = NumSources => GroupsPartition(all, groupByProtocol(all))

\* The line the first pass returned for a link, as the aggregate list has it.
AggregateLines(link) ==
    {saved[f].lines[j] : f \in {x \in DOMAIN saved : saved[x].kind = "all"},
                         j \in {y \in DOMAIN all : all[y] = link}}

\* C19: every line of a per-protocol list is the line of the aggregate list
\* for the same original link: the per-protocol pass returns for each link
\* the string the first pass returned for it, whatever the interleaving of
\* the workers and the outcomes of the DNS and geo calls.
C19_SecondPassSameLines ==
    \A f \in DOMAIN saved : \A g \in DOMAIN grouped :
        (saved[f].kind = "proto" /\ grouped[g].k = saved[f].proto)
            => \A k \in DOMAIN saved[f].lines :
                  saved[f].lines[k] \in AggregateLines(grouped[g].v[k])

\* No request is outstanding and no continuation is ready to run: no fetch,
\* lookup or geo request is awaited, no worker has a settled promise to resume
\* from, no Promise.all is left to resolve and main has no parallelMap to
\* resume from.  The program takes no further step.
Quiescent ==
    /\ mainPc # "fetch"
    /\ \A w \in DOMAIN workers : workers[w].pc = "done"
    /\ pm # "running"
    /\ ~(pm = "resolved" /\ mainPc \in {"pass1", "protos"})

\* C20: with every request settling and every ready continuation run, the
\* program runs on until nothing is pending; at that point every parallelMap
\* call has resolved and main has reached its last step.
C20_QuiescentOnlyWhenDone ==
    Quiescent => (pm # "running" /\ mainPc = "done")

====
